---- MODULE Spec2Model ----
(***************************************************************************)
(* State-machine model of the vectorflow embedding worker                  *)
(* (src/src/worker/worker.py): the chunking functions, the batch grouper,  *)
(* the batch/job state transitions, the synchronous and asynchronous       *)
(* dispatchers, the downstream publisher and the consumer callback.        *)
(***************************************************************************)
EXTENDS Integers, Sequences, FiniteSets, TLC

(* ------------------------------------------------------------------ *)
(* Bounds of the model                                                 *)
(* ------------------------------------------------------------------ *)
\* longest text drawn as input of the chunking functions
MaxLen == 9
\* largest chunk_size drawn as input of the chunking functions
MaxSize == 9
\* largest overlap drawn as input of chunk_data_by_paragraph
MaxOverlap == 2
\* number of messages the broker delivers
MaxMsgs == 3
\* config.MAX_OPENAI_EMBEDDING_BATCH_SIZE, scaled down
MAX_OPENAI_EMBEDDING_BATCH_SIZE == 2
\* config.MAX_THREADS_OPENAI, scaled down
MAX_THREADS_OPENAI == 2
\* config.HUGGING_FACE_BATCH_SIZE, scaled down
HUGGING_FACE_BATCH_SIZE == 2

\* longest text drawn as input of chunk_by_sentence
MaxSentenceLen == 6
\* largest chunk_size drawn as input of chunk_by_sentence
MaxSentenceSize == 3

\* number of connection failures the broker causes
MaxConnFailures == 4
\* number of messages start_consuming hands to callback
MaxConsumed == 3

\* config.PIKA_RETRY_INTERVAL, in seconds
PIKA_RETRY_INTERVAL == 10

\* longest list drawn as input of create_upload_batches
MaxChunks == 5
\* largest max_batch_size drawn as input of create_upload_batches
MaxGroupSize == 3

\* number of dispatch messages for one batch handled by the two workers
MaxBegins == 3

\* attempts=5 of get_openai_embedding and publish_to_embedding_queue
Attempts == 5

\* characters of the texts: a letter and the newline that makes paragraph breaks
Alphabet == {"a", "\n"}

\* characters of the texts split into sentences: a letter, a sentence ending
\* and the space that separates sentences
SentenceAlphabet == {"a", ".", " "}

VARIABLES
    \* ---- chunking functions (worker.py:142-203)
    strategy,      \* ChunkStrategy of the call
    data,          \* "".join(data_chunks)
    chunk_size,
    overlap,       \* chunk_overlap / overlap
    start_idx,     \* cursor of chunk_data_by_paragraph
    chunks,        \* list of chunks built so far / returned
    cpc,           \* position in the chunking call: "call", "loop", "done", "off"
    \* ---- get_openai_embedding called on one group (worker.py:71-83)
    retry_pc,      \* position in get_openai_embedding: "try", "returned", "off"
    retry_i,       \* loop variable i of range(attempts)
    calls,         \* number of openai.Embedding.create calls made
    sleeps,        \* arguments of the time.sleep calls made, in order
    returned,      \* second component of the value returned: "data", "none", "unset"
    \* ---- create_upload_batches (worker.py:205-207)
    group_pc,      \* position in the grouping call: "call", "done", "off"
    chunked_data,  \* the list passed as batches
    upload_batch_size, \* the value passed as max_batch_size
    open_ai_batches,   \* the list returned
    \* ---- start_connection (worker.py:242-280)
    conn_pc,       \* position in the while True loop
    connection,    \* global connection: 0 (unset) or the number of the attempt that made it
    publish_channel, \* global publish_channel: 0 (unset) or the attempt that made it
    conn_failures, \* number of exceptions caught at line 278
    consumed,      \* number of messages start_consuming has handed to callback
    \* ---- two worker instances on one batch (worker.py:30-45)
    w_pc,          \* worker -> position in process_batch
    w_batch,       \* worker -> the Batch object it read at line 32
    begins,        \* number of begin-processing steps completed on the batch
    \* ---- broker and consumer callback (worker.py:227-240)
    pc,            \* position of the consumer thread in callback/process_batch
    delivered,     \* number of messages the broker has delivered (the delivery tag)
    acked,         \* delivery tags acknowledged with basic_ack, in order
    msg,           \* body of the message being handled
    environ,       \* os.environ["VECTOR_DB_KEY"]
    entry_environ, \* os.environ["VECTOR_DB_KEY"] as it was when callback was entered
    \* ---- persisted records (batch_service / job_service)
    db_job,        \* job_status of the job
    db_batch,      \* batch id -> [batch_status, retries, minibatch_count]
    job_writes,    \* number of update_job_status calls that were committed
    \* ---- locals of process_batch and of the dispatchers
    batch,         \* the Batch object read by get_batch / refreshed at line 45
    job,           \* the job_status read by get_job
    groups,        \* open_ai_batches / hugging_face_batches
    futures,       \* group index -> [state, attempt, result] of its pool task
    yielded,       \* futures already yielded by as_completed
    pending,       \* how embed_openai_batch leaves its with block
    text_embeddings_list,
    hf_idx,        \* index of the group embed_hugging_face_batch is publishing
    hf_attempt,    \* attempt index inside publish_to_embedding_queue
    \* ---- observable output while the current message is handled
    upload_queue,  \* messages published to VDB_UPLOAD_QUEUE
    embed_queue,   \* messages published to the model queue
    errlog         \* source lines of the logging.error calls of the consumer thread

chunkVars == <<strategy, data, chunk_size, overlap, start_idx, chunks, cpc>>

brokerVars == <<pc, delivered, acked, msg, environ, entry_environ, entry_environ>>

dbVars == <<db_job, db_batch, job_writes>>

localVars == <<batch, job, groups, futures, yielded, pending, text_embeddings_list,
               hf_idx, hf_attempt>>

outVars == <<upload_queue, embed_queue, errlog>>

workerVars == <<brokerVars, dbVars, localVars, outVars>>

retryVars == <<retry_pc, retry_i, calls, sleeps, returned>>

groupVars == <<group_pc, chunked_data, upload_batch_size, open_ai_batches>>

connVars == <<conn_pc, connection, publish_channel, conn_failures, consumed>>

twoVars == <<w_pc, w_batch, begins>>

extraVars == <<retryVars, groupVars, connVars, twoVars>>

vars == <<chunkVars, workerVars, extraVars>>

(* ------------------------------------------------------------------ *)
(* Python helpers                                                      *)
(* ------------------------------------------------------------------ *)
Min(a, b) == IF a <= b THEN a ELSE b

\* s[a:b] for 0 <= a: the half-open 0-based slice, clamped to the end of s
Slice(s, a, b) == SubSeq(s, a + 1, Min(b, Len(s)))

\* texts of length at most n over Alphabet
Texts(n) == UNION {[1..k -> Alphabet] : k \in 0..n}

\* ceil(a / b) for a >= 0, b >= 1
CeilDiv(a, b) == (a + b - 1) \div b

RECURSIVE Concat(_)
\* "".join / list concatenation of a sequence of sequences
Concat(ss) == IF ss = << >> THEN << >> ELSE Head(ss) \o Concat(Tail(ss))

(* ------------------------------------------------------------------ *)
(* Chunker                                                             *)
(* ------------------------------------------------------------------ *)
RECURSIVE ExactFrom(_, _, _, _)
\* the loop of chunk_data_exact from index i on
ExactFrom(d, i, size, step) ==
    IF i >= Len(d) THEN << >>
    ELSE <<Slice(d, i, i + size)>> \o ExactFrom(d, i + step, size, step)

\* mutant: the window is as wide as the step instead of chunk_size
chunk_data_exact_stepwide(d, size, ovl) == ExactFrom(d, 0, size - ovl, size - ovl)

\* mutant: the range stops before the trailing overlap
chunk_data_exact_short(d, size, ovl) ==
    ExactFrom(SubSeq(d, 1, Len(d) - ovl), 0, size, size - ovl)

\* chunk_data_exact(data_chunks, chunk_size, chunk_overlap), for overlap < size
chunk_data_exact(d, size, ovl) == ExactFrom(d, 0, size, size - ovl)

\* data.find('\n\n', start, end): lowest index of a break lying wholly in
\* data[start:end], or -1
FindBreak(d, start, end) ==
    LET e == Min(end, Len(d))
        hits == {p \in start..(e - 2) : d[p + 1] = "\n" /\ d[p + 2] = "\n"}
    IN  IF hits = {} THEN -1 ELSE CHOOSE p \in hits : \A q \in hits : p <= q

\* int(bound * chunk_size) with bound = 0.75
CheckBound(size) == (3 * size) \div 4

\* end_idx of one iteration of chunk_data_by_paragraph
ParagraphEnd(d, start, size) ==
    LET hard == Min(start + size, Len(d))
        npi == FindBreak(d, start + CheckBound(size), hard)
    IN  IF npi # -1 THEN npi + 2 ELSE hard

\* mutant: the cursor steps back by the overlap
ParagraphAdvanceBack(end_idx, ovl) == end_idx - ovl

\* start_idx = end_idx
ParagraphAdvance(end_idx, ovl) == end_idx

RECURSIVE ParagraphFrom(_, _, _, _)
\* the while loop of chunk_data_by_paragraph from start_idx = start on
ParagraphFrom(d, start, size, ovl) ==
    IF start >= Len(d) THEN << >>
    ELSE LET end_idx == ParagraphEnd(d, start, size)
         IN  <<Slice(d, start, end_idx + ovl)>>
                 \o ParagraphFrom(d, ParagraphAdvance(end_idx, ovl), size, ovl)

\* chunk_data_by_paragraph(data_chunks, chunk_size, overlap)
chunk_data_by_paragraph(d, size, ovl) == ParagraphFrom(d, 0, size, ovl)

\* the characters of the lookbehind of sentence_endings ("..." stands for the
\* single character U+2026)
SentenceEndings == {".", "!", "?", "..."}

RECURSIVE RunEnd(_, _)
\* index just past the run of spaces that starts at index p
RunEnd(d, p) == IF p < Len(d) /\ d[p + 1] = " " THEN RunEnd(d, p + 1) ELSE p

RECURSIVE SplitFrom(_, _, _)
\* re.split(sentence_endings, data): scan from index p, the current piece
\* starting at index last
SplitFrom(d, p, last) ==
    IF p >= Len(d) THEN <<Slice(d, last, Len(d))>>
    ELSE IF p >= 1 /\ d[p + 1] = " " /\ d[p] \in SentenceEndings
         THEN <<Slice(d, last, p)>> \o SplitFrom(d, RunEnd(d, p), RunEnd(d, p))
         ELSE SplitFrom(d, p + 1, last)

\* chunk_by_sentence with every sentence appended as it is
chunk_by_sentence_verbatim(d, size, ovl) == SplitFrom(d, 0, 0)

\* chunk_by_sentence(data_chunks, chunk_size, overlap)
chunk_by_sentence(d, size, ovl) ==
    LET sentences == SplitFrom(d, 0, 0)
    IN  Concat([k \in 1..Len(sentences) |->
                  IF Len(sentences[k]) > size
                  THEN chunk_data_exact(sentences[k], size, ovl)
                  ELSE <<sentences[k]>>])

(* ------------------------------------------------------------------ *)
(* Batch Grouper                                                       *)
(* ------------------------------------------------------------------ *)
RECURSIVE GroupsFrom(_, _, _)
\* [batches[i:i + m] for i in range(from, len(batches), m)]
GroupsFrom(batches, from, m) ==
    IF from >= Len(batches) THEN << >>
    ELSE <<Slice(batches, from, from + m)>> \o GroupsFrom(batches, from + m, m)

\* mutant: a trailing group of fewer than max_batch_size items is dropped
create_upload_batches_full(batches, max_batch_size) ==
    SelectSeq(GroupsFrom(batches, 0, max_batch_size), LAMBDA g : Len(g) = max_batch_size)

\* create_upload_batches(batches, max_batch_size)
create_upload_batches(batches, max_batch_size) == GroupsFrom(batches, 0, max_batch_size)

(* ------------------------------------------------------------------ *)
(* Records, messages and collaborators                                 *)
(* ------------------------------------------------------------------ *)
\* values of os.environ["VECTOR_DB_KEY"] carried by the dispatch messages
Keys == {"k1", "k2"}

\* ids of the batches of the job
Batches == {1, 2, 3}

\* batch.embeddings_metadata of each batch: one batch per dispatch branch
EmbeddingsMetadataOf(b) ==
    [embeddings_type |-> CASE b = 1 -> "OPEN_AI" [] b = 2 -> "HUGGING_FACE" [] OTHER -> "NONE",
     chunk_strategy |-> "EXACT",
     chunk_size |-> 2,
     chunk_overlap |-> 1,
     hugging_face_model_name |-> "model"]

\* source_data of the dispatch messages: a list of strings (the second one
\* yields the chunks aa, aa, ab, b: a chunk that occurs twice, two groups)
SourceTexts ==
    { << >>,
      << <<"a", "a">>, <<"a", "b">> >> }

\* a body that json.loads, the 4-tuple unpacking or an os.environ write rejects
Malformed == [ok |-> FALSE, batch_id |-> 0, source_data |-> << >>, vector_db_key |-> "k1"]

\* a well-formed body that names a batch get_batch does not find
UnknownBatch == [ok |-> TRUE, batch_id |-> 0, source_data |-> << >>, vector_db_key |-> "k1"]

\* bodies of the messages on the embedding queue
Messages ==
    {Malformed, UnknownBatch} \cup
    [ok : {TRUE}, batch_id : Batches, source_data : SourceTexts, vector_db_key : Keys]

NoBatch == [id |-> 0, batch_status |-> "NONE", retries |-> 0, minibatch_count |-> 0]

\* the vector the provider returns for a text
Vector(text) == <<"v">> \o text

\* response["data"] of openai.Embedding.create for a group of chunks
ResponseData(batch_of_chunks) ==
    [k \in 1..Len(batch_of_chunks) |-> [embedding |-> Vector(batch_of_chunks[k])]]

\* mutant: the texts are paired with the embeddings taken from the end
ZipPairsReversed(cs, embeddings) ==
    [k \in 1..Min(Len(cs), Len(embeddings)) |->
        <<cs[k], embeddings[Len(embeddings) + 1 - k].embedding>>]

\* [(text, embedding['embedding']) for text, embedding in zip(chunks, embeddings)]
ZipPairs(cs, embeddings) ==
    [k \in 1..Min(Len(cs), Len(embeddings)) |-> <<cs[k], embeddings[k].embedding>>]

\* batch_service.update_batch_status(db, batch_id, status)
update_batch_status(row, status) == [row EXCEPT !.batch_status = status]

\* batch_service.update_batch_retry_count(db, batch_id, retries)
update_batch_retry_count(row, retries) == [row EXCEPT !.retries = retries]

\* batch_service.update_batch_minibatch_count(db, batch_id, count)
update_batch_minibatch_count(row, count) == [row EXCEPT !.minibatch_count = count]

\* chunk_data(chunk_strategy, source_data, chunk_size, chunk_overlap)
chunk_data(chunk_strategy, source_data, size, ovl) ==
    CASE chunk_strategy = "EXACT" -> chunk_data_exact(Concat(source_data), size, ovl)
      [] chunk_strategy = "PARAGRAPH" -> chunk_data_by_paragraph(Concat(source_data), size, ovl)
      [] chunk_strategy = "SENTENCE" -> chunk_by_sentence(Concat(source_data), size, ovl)
      [] OTHER -> chunk_data_exact(Concat(source_data), size, ovl)

\* the chunks of the batch being processed
ChunkedData ==
    LET md == EmbeddingsMetadataOf(batch.id)
    IN  chunk_data(md.chunk_strategy, msg.source_data, md.chunk_size, md.chunk_overlap)

(* ------------------------------------------------------------------ *)
(* Consumer callback                                                   *)
(* ------------------------------------------------------------------ *)
LocalsInit ==
    /\ batch = NoBatch
    /\ job = "NONE"
    /\ groups = << >>
    /\ futures = << >>
    /\ yielded = {}
    /\ pending = "none"
    /\ text_embeddings_list = << >>
    /\ hf_idx = 0
    /\ hf_attempt = 0

WorkerInit ==
    /\ pc = "idle"
    /\ delivered = 0
    /\ acked = << >>
    /\ msg = Malformed
    /\ environ = "unset"
    /\ entry_environ = "unset"
    /\ db_batch = [b \in Batches |->
                     [batch_status |-> "NOT_STARTED", retries |-> 0, minibatch_count |-> 0]]
    /\ job_writes = 0
    /\ LocalsInit
    /\ upload_queue = << >>
    /\ embed_queue = << >>
    /\ errlog = {}

\* mutant: the handler catches only the decoding error
CallbackCatchesDecodeOnly(e) == e = "ValueError"

\* except Exception as e (line 237)
CallbackCatches(e) == TRUE

\* an exception e reaches the try block of callback
RaiseToCallback(e) ==
    IF CallbackCatches(e)
    THEN pc' = "ack" /\ errlog' = errlog \cup {238}
    ELSE pc' = "escaped" /\ errlog' = errlog

\* the broker hands the next message to callback
Deliver(m) ==
    /\ pc = "idle"
    /\ delivered < MaxMsgs
    /\ delivered' = delivered + 1
    /\ msg' = m
    /\ pc' = "parse"
    /\ entry_environ' = environ
    /\ UNCHANGED <<extraVars, chunkVars, acked, environ, dbVars, localVars, outVars>>

\* mutant: the key is written to the environment only when none is set yet
ParseKeepsKey ==
    /\ pc = "parse"
    /\ IF msg.ok
       THEN /\ environ' = IF environ = "unset" THEN msg.vector_db_key ELSE environ
            /\ pc' = "get_batch"
            /\ errlog' = errlog
       ELSE /\ RaiseToCallback("ValueError")
            /\ environ' = environ
    /\ UNCHANGED <<extraVars, chunkVars, delivered, acked, msg, entry_environ, dbVars,
                   localVars, upload_queue, embed_queue>>

\* json.loads, unpacking and the two os.environ writes (lines 229-232)
Parse ==
    /\ pc = "parse"
    /\ IF msg.ok
       THEN /\ environ' = msg.vector_db_key
            /\ pc' = "get_batch"
            /\ errlog' = errlog
       \* lines 229-230 raise, or line 232 raises after line 231 wrote the key
       ELSE /\ RaiseToCallback("ValueError")
            /\ environ' \in {environ, msg.vector_db_key}
    /\ UNCHANGED <<extraVars, chunkVars, delivered, acked, msg, entry_environ, dbVars,
                   localVars, upload_queue, embed_queue>>

\* get_batch and get_job (lines 32-33); get_batch returns None for an unknown
\* id and batch.job_id raises AttributeError
GetBatch(ok) ==
    /\ pc = "get_batch"
    /\ IF msg.batch_id \notin Batches
       THEN /\ ok
            /\ RaiseToCallback("AttributeError")
            /\ UNCHANGED <<batch, job>>
       ELSE IF ok
       THEN /\ batch' = [id |-> msg.batch_id,
                         batch_status |-> db_batch[msg.batch_id].batch_status,
                         retries |-> db_batch[msg.batch_id].retries,
                         minibatch_count |-> db_batch[msg.batch_id].minibatch_count]
            /\ job' = db_job
            /\ pc' = "job_status"
            /\ errlog' = errlog
       ELSE /\ RaiseToCallback("DBError")
            /\ UNCHANGED <<batch, job>>
    /\ UNCHANGED <<extraVars, chunkVars, delivered, acked, msg, environ, entry_environ, dbVars, groups, futures,
                   yielded, pending, text_embeddings_list, hf_idx, hf_attempt,
                   upload_queue, embed_queue>>

\* mutant: the job status is written for every batch
JobNeedsStartAlways(job_status) == TRUE

\* job.job_status == NOT_STARTED or job.job_status == CREATING_BATCHES (line 36)
JobNeedsStart(job_status) == job_status \in {"NOT_STARTED", "CREATING_BATCHES"}

\* the job status transition (lines 36-37)
JobStatusStep(ok) ==
    /\ pc = "job_status"
    /\ IF JobNeedsStart(job)
       THEN IF ok
            THEN /\ db_job' = "PROCESSING_BATCHES"
                 /\ job_writes' = job_writes + 1
                 /\ pc' = "begin"
                 /\ errlog' = errlog
            ELSE /\ RaiseToCallback("DBError")
                 /\ UNCHANGED <<db_job, job_writes>>
       ELSE /\ ok
            /\ pc' = "begin"
            /\ UNCHANGED <<db_job, job_writes, errlog>>
    /\ UNCHANGED <<extraVars, chunkVars, delivered, acked, msg, environ, entry_environ, db_batch, localVars,
                   upload_queue, embed_queue>>

\* the batch status transition of process_batch (lines 39-42)
BeginProcessing(row, b) ==
    IF b.batch_status = "NOT_STARTED"
    THEN update_batch_status(row, "PROCESSING")
    ELSE update_batch_retry_count(row, b.retries + 1)

\* lines 39-45: the status or retry write, then db.refresh(batch)
Begin(ok) ==
    /\ pc = "begin"
    /\ IF ok
       THEN LET row == BeginProcessing(db_batch[batch.id], batch)
            IN  /\ db_batch' = [db_batch EXCEPT ![batch.id] = row]
                /\ batch' = [id |-> batch.id,
                             batch_status |-> row.batch_status,
                             retries |-> row.retries,
                             minibatch_count |-> row.minibatch_count]
                /\ pc' = "dispatch"
                /\ errlog' = errlog
       ELSE /\ RaiseToCallback("DBError")
            /\ UNCHANGED <<db_batch, batch>>
    /\ UNCHANGED <<extraVars, chunkVars, delivered, acked, msg, environ, entry_environ, db_job, job_writes, job,
                   groups, futures, yielded, pending, text_embeddings_list, hf_idx,
                   hf_attempt, upload_queue, embed_queue>>

\* the branch on embeddings_type (lines 47-48, 60, 66-68); on the OPEN_AI
\* branch also lines 86-96: chunk, group and submit one task per group
Dispatch ==
    /\ pc = "dispatch"
    /\ LET type == EmbeddingsMetadataOf(batch.id).embeddings_type
       IN  CASE type = "OPEN_AI" ->
                  /\ groups' = create_upload_batches(ChunkedData,
                                                     MAX_OPENAI_EMBEDDING_BATCH_SIZE)
                  /\ futures' = [g \in 1..Len(groups') |->
                                   [state |-> "queued", attempt |-> 0, result |-> "pending"]]
                  /\ pc' = "pool"
                  /\ errlog' = errlog
             [] type = "HUGGING_FACE" ->
                  /\ pc' = "hf_count"
                  /\ UNCHANGED <<groups, futures, errlog>>
             [] OTHER ->
                  /\ errlog' = errlog \cup {67}
                  /\ pc' = "mark_failed"
                  /\ UNCHANGED <<groups, futures>>
    /\ UNCHANGED <<extraVars, chunkVars, delivered, acked, msg, environ, entry_environ, dbVars, batch, job,
                   yielded, pending, text_embeddings_list, hf_idx, hf_attempt,
                   upload_queue, embed_queue>>

(* ------------------------------------------------------------------ *)
(* Synchronous dispatcher                                              *)
(* ------------------------------------------------------------------ *)
Running == {g \in DOMAIN futures : futures[g].state = "running"}

Queued == {g \in DOMAIN futures : futures[g].state = "queued"}

AllDone == \A g \in DOMAIN futures : futures[g].state = "done"

InPool == pc \in {"pool", "pool_join"}

\* mutant: a queued task starts whether or not a pool thread is free
TaskStartNoLimit(g) ==
    /\ InPool
    /\ g \in Queued
    /\ \A h \in Queued : g <= h
    /\ futures' = [futures EXCEPT ![g].state = "running"]
    /\ UNCHANGED <<extraVars, chunkVars, brokerVars, dbVars, batch, job, groups, yielded, pending,
                   text_embeddings_list, hf_idx, hf_attempt, outVars>>

\* a pool thread takes the oldest queued task (ThreadPoolExecutor, line 95-96)
TaskStart(g) ==
    /\ InPool
    /\ g \in Queued
    /\ \A h \in Queued : g <= h
    /\ Cardinality(Running) < MAX_THREADS_OPENAI
    /\ futures' = [futures EXCEPT ![g].state = "running"]
    /\ UNCHANGED <<extraVars, chunkVars, brokerVars, dbVars, batch, job, groups, yielded, pending,
                   text_embeddings_list, hf_idx, hf_attempt, outVars>>

\* one pass of the loop body of get_openai_embedding at loop index i (lines
\* 73-82): whether the function returns the data (line 79), and the argument
\* of time.sleep (0: time.sleep is not called, the except clause did not run)
TryOnce(i, outcome) ==
    [returns |-> (outcome = "data"),
     sleep |-> IF outcome = "raise" THEN 2 ^ i ELSE 0]

\* one pass of the loop of get_openai_embedding (lines 72-83): the provider
\* returns data, returns no data, or raises (then the thread sleeps 2**i)
ProviderCall(g, outcome) ==
    /\ InPool
    /\ g \in Running
    /\ futures[g].attempt < Attempts
    /\ futures' =
         IF TryOnce(futures[g].attempt, outcome).returns
         THEN [futures EXCEPT ![g] = [state |-> "done", attempt |-> @.attempt, result |-> "data"]]
         ELSE IF futures[g].attempt + 1 = Attempts
         THEN [futures EXCEPT ![g] = [state |-> "done", attempt |-> Attempts, result |-> "none"]]
         ELSE [futures EXCEPT ![g].attempt = @ + 1]
    /\ UNCHANGED <<extraVars, chunkVars, brokerVars, dbVars, batch, job, groups, yielded, pending,
                   text_embeddings_list, hf_idx, hf_attempt, outVars>>

\* mutant: a failed group is skipped and the loop goes on
AfterFailedGroupSkip == "pool"

\* return inside the with block (line 105): the executor is joined first
AfterFailedGroup == "pool_join"

\* one pass of the as_completed loop (lines 97-105)
Collect(g, resolves, ok) ==
    /\ pc = "pool"
    /\ g \in DOMAIN futures
    /\ g \notin yielded
    /\ futures[g].state = "done"
    /\ yielded' = yielded \cup {g}
    /\ IF futures[g].result = "data"
       THEN /\ resolves /\ ok
            /\ text_embeddings_list' =
                  text_embeddings_list \o ZipPairs(groups[g], ResponseData(groups[g]))
            /\ UNCHANGED <<pc, pending, db_batch, errlog>>
       ELSE /\ pc' = AfterFailedGroup
            /\ UNCHANGED text_embeddings_list
            /\ IF resolves
               \* BatchStatus.Failed names a member: the status write, then return
               THEN /\ pending' = "return"
                    /\ IF ok
                       THEN /\ db_batch' = [db_batch EXCEPT
                                              ![batch.id] = update_batch_status(@, "FAILED")]
                            /\ errlog' = errlog \cup {103}
                       ELSE /\ db_batch' = db_batch
                            /\ errlog' = errlog \cup {103, 215}
               \* BatchStatus.Failed raises AttributeError
               ELSE /\ ok
                    /\ pending' = "AttributeError"
                    /\ db_batch' = db_batch
                    /\ errlog' = errlog \cup {103}
    /\ UNCHANGED <<extraVars, chunkVars, delivered, acked, msg, environ, entry_environ, db_job, job_writes, batch,
                   job, groups, futures, hf_idx, hf_attempt, upload_queue, embed_queue>>

\* mutant: an empty list of pairs is uploaded like any other
PoolReturnUploadsEmpty ==
    /\ pc = "pool"
    /\ yielded = DOMAIN futures
    /\ AllDone
    /\ pc' = "upload"
    /\ UNCHANGED <<extraVars, chunkVars, delivered, acked, msg, environ, entry_environ, dbVars, localVars,
                   outVars>>

\* the with block is left normally (lines 105-108), then lines 51-55
PoolReturn ==
    /\ pc = "pool"
    /\ yielded = DOMAIN futures
    /\ AllDone
    /\ IF text_embeddings_list # << >>
       THEN pc' = "upload" /\ errlog' = errlog
       ELSE pc' = "mark_failed" /\ errlog' = errlog \cup {54}
    /\ UNCHANGED <<extraVars, chunkVars, delivered, acked, msg, environ, entry_environ, dbVars, localVars,
                   upload_queue, embed_queue>>

\* the with block is left by return or by the exception: shutdown(wait=True)
\* waits for every task, then line 54-55 or line 58-59
PoolJoin ==
    /\ pc = "pool_join"
    /\ AllDone
    /\ pc' = "mark_failed"
    /\ errlog' = errlog \cup (IF pending = "return" THEN {54} ELSE {58})
    /\ UNCHANGED <<extraVars, chunkVars, delivered, acked, msg, environ, entry_environ, dbVars, localVars,
                   upload_queue, embed_queue>>

\* mutant: the failure is logged and the status is not written
MarkFailedNoWrite(ok) ==
    /\ pc = "mark_failed"
    /\ ok
    /\ pc' = "ack"
    /\ UNCHANGED <<extraVars, chunkVars, delivered, acked, msg, environ, entry_environ, dbVars,
                   localVars, outVars>>

\* update_batch_status(job_id, FAILED, batch_id) (lines 209-215)
MarkFailed(ok) ==
    /\ pc = "mark_failed"
    /\ IF ok
       THEN /\ db_batch' = [db_batch EXCEPT ![batch.id] = update_batch_status(@, "FAILED")]
            /\ errlog' = errlog
       ELSE /\ db_batch' = db_batch
            /\ errlog' = errlog \cup {215}
    /\ pc' = "ack"
    /\ UNCHANGED <<extraVars, chunkVars, delivered, acked, msg, environ, entry_environ, db_job, job_writes,
                   localVars, upload_queue, embed_queue>>

(* ------------------------------------------------------------------ *)
(* Downstream publisher                                                *)
(* ------------------------------------------------------------------ *)
\* mutant: a failed upload publish marks the batch FAILED
OnUploadFailureMarkFailed(row) == update_batch_status(row, "FAILED")

\* except Exception: logging.error only (lines 224-225)
OnUploadFailure(row) == row

\* upload_to_vector_db(batch_id, text_embeddings_list) (lines 217-225)
Upload(ok) ==
    /\ pc = "upload"
    /\ IF ok
       THEN /\ upload_queue' = Append(upload_queue,
                                      [batch_id |-> msg.batch_id,
                                       embeddings |-> text_embeddings_list,
                                       vector_db_key |-> environ])
            /\ UNCHANGED <<db_batch, errlog>>
       ELSE /\ db_batch' = [db_batch EXCEPT ![batch.id] = OnUploadFailure(@)]
            /\ errlog' = errlog \cup {225}
            /\ UNCHANGED upload_queue
    /\ pc' = "ack"
    /\ UNCHANGED <<extraVars, chunkVars, delivered, acked, msg, environ, entry_environ, db_job, job_writes,
                   localVars, embed_queue>>

(* ------------------------------------------------------------------ *)
(* Asynchronous dispatcher                                             *)
(* ------------------------------------------------------------------ *)
\* mutant: the count of chunks instead of the count of groups
MinibatchCountChunks(gs) == Len(Concat(gs))

\* len(hugging_face_batches) (line 137)
MinibatchCount(gs) == Len(gs)

\* lines 131-137: chunk, group, record minibatch_count
HfCount(ok) ==
    /\ pc = "hf_count"
    /\ groups' = create_upload_batches(ChunkedData, HUGGING_FACE_BATCH_SIZE)
    /\ IF ok
       THEN /\ db_batch' = [db_batch EXCEPT
                              ![batch.id] = update_batch_minibatch_count(@, MinibatchCount(groups'))]
            /\ hf_idx' = 1
            /\ pc' = "hf_publish"
            /\ errlog' = errlog
       ELSE /\ errlog' = errlog \cup {64}
            /\ pc' = "mark_failed"
            /\ UNCHANGED <<db_batch, hf_idx>>
    /\ hf_attempt' = 0
    /\ UNCHANGED <<extraVars, chunkVars, delivered, acked, msg, environ, entry_environ, db_job, job_writes, batch,
                   job, futures, yielded, pending, text_embeddings_list, upload_queue,
                   embed_queue>>

\* one attempt of publish_to_embedding_queue (lines 111-123)
HfPublish(ok) ==
    /\ pc = "hf_publish"
    /\ hf_idx <= Len(groups)
    /\ hf_attempt < Attempts
    /\ IF ok
       THEN /\ embed_queue' = Append(embed_queue,
                                     [batch_id |-> batch.id,
                                      chunks |-> groups[hf_idx],
                                      vector_db_key |-> environ,
                                      queue |-> EmbeddingsMetadataOf(batch.id).hugging_face_model_name])
            /\ hf_idx' = hf_idx + 1
            /\ hf_attempt' = 0
            /\ errlog' = errlog
       ELSE /\ hf_attempt' = hf_attempt + 1
            /\ errlog' = errlog \cup {122}
            /\ UNCHANGED <<embed_queue, hf_idx>>
    /\ UNCHANGED <<extraVars, chunkVars, brokerVars, dbVars, batch, job, groups, futures, yielded,
                   pending, text_embeddings_list, upload_queue>>

\* every attempt of a group failed (lines 126-128): the batch is marked
\* FAILED, publish_to_embedding_queue returns and the for loop of line 139
\* goes on with the next group
HfExhausted(ok) ==
    /\ pc = "hf_publish"
    /\ hf_idx <= Len(groups)
    /\ hf_attempt = Attempts
    /\ IF ok
       THEN /\ db_batch' = [db_batch EXCEPT ![batch.id] = update_batch_status(@, "FAILED")]
            /\ errlog' = errlog \cup {128}
            /\ hf_idx' = hf_idx + 1
            /\ hf_attempt' = 0
            /\ pc' = pc
       ELSE /\ errlog' = errlog \cup {64}
            /\ pc' = "mark_failed"
            /\ UNCHANGED <<db_batch, hf_idx, hf_attempt>>
    /\ UNCHANGED <<extraVars, chunkVars, delivered, acked, msg, environ, entry_environ, db_job, job_writes, batch,
                   job, groups, futures, yielded, pending, text_embeddings_list,
                   upload_queue, embed_queue>>

\* the for loop of line 139 is over: embed_hugging_face_batch returns
HfReturn ==
    /\ pc = "hf_publish"
    /\ hf_idx > Len(groups)
    /\ pc' = "ack"
    /\ UNCHANGED <<extraVars, chunkVars, delivered, acked, msg, environ, entry_environ, dbVars, localVars, outVars>>

\* ch.basic_ack(delivery_tag=method.delivery_tag) (line 240); callback returns
Ack ==
    /\ pc = "ack"
    /\ acked' = Append(acked, delivered)
    /\ pc' = "idle"
    /\ msg' = Malformed
    /\ batch' = NoBatch
    /\ job' = "NONE"
    /\ groups' = << >>
    /\ futures' = << >>
    /\ yielded' = {}
    /\ pending' = "none"
    /\ text_embeddings_list' = << >>
    /\ hf_idx' = 0
    /\ hf_attempt' = 0
    /\ upload_queue' = << >>
    /\ embed_queue' = << >>
    /\ errlog' = {}
    /\ UNCHANGED <<extraVars, chunkVars, delivered, environ, entry_environ, dbVars>>

(* ------------------------------------------------------------------ *)
(* Specification of the worker                                         *)
(* ------------------------------------------------------------------ *)
ChunkOff ==
    /\ strategy = "EXACT"
    /\ data = << >>
    /\ chunk_size = 1
    /\ overlap = 0
    /\ start_idx = 0
    /\ chunks = << >>
    /\ cpc = "off"

\* get_openai_embedding is not being called on its own
RetryOff ==
    /\ retry_pc = "off"
    /\ retry_i = 0
    /\ calls = 0
    /\ sleeps = << >>
    /\ returned = "unset"

\* create_upload_batches is not being called on its own
GroupOff ==
    /\ group_pc = "off"
    /\ chunked_data = << >>
    /\ upload_batch_size = 1
    /\ open_ai_batches = << >>

\* the connection loop is not modelled: the channel is open and consuming
ConnOff ==
    /\ conn_pc = "off"
    /\ connection = 0
    /\ publish_channel = 0
    /\ conn_failures = 0
    /\ consumed = 0

\* the worker instances of the deployment
Workers == {1, 2}

\* no second worker instance is modelled
TwoOff ==
    /\ w_pc = [w \in Workers |-> "off"]
    /\ w_batch = [w \in Workers |-> NoBatch]
    /\ begins = 0

Init ==
    /\ ChunkOff
    /\ RetryOff /\ GroupOff /\ ConnOff /\ TwoOff
    /\ WorkerInit
    /\ db_job \in {"NOT_STARTED", "CREATING_BATCHES", "COMPLETED"}

Next ==
    \/ \E m \in Messages : Deliver(m)
    \/ Parse
    \/ \E ok \in BOOLEAN : GetBatch(ok)
    \/ \E ok \in BOOLEAN : JobStatusStep(ok)
    \/ \E ok \in BOOLEAN : Begin(ok)
    \/ Dispatch
    \/ \E g \in DOMAIN futures : TaskStart(g)
    \/ \E g \in DOMAIN futures, outcome \in {"data", "empty", "raise"} : ProviderCall(g, outcome)
    \/ \E g \in DOMAIN futures, resolves \in BOOLEAN, ok \in BOOLEAN : Collect(g, resolves, ok)
    \/ PoolReturn
    \/ PoolJoin
    \/ \E ok \in BOOLEAN : MarkFailed(ok)
    \/ \E ok \in BOOLEAN : Upload(ok)
    \/ \E ok \in BOOLEAN : HfCount(ok)
    \/ \E ok \in BOOLEAN : HfPublish(ok)
    \/ \E ok \in BOOLEAN : HfExhausted(ok)
    \/ HfReturn
    \/ Ack

Spec == Init /\ [][Next]_vars

(* ------------------------------------------------------------------ *)
(* Properties of the worker                                            *)
(* ------------------------------------------------------------------ *)
Processing == pc \notin {"idle", "escaped"}

TypeOfBatch == EmbeddingsMetadataOf(batch.id).embeddings_type

\* groups whose task used up its attempts
Exhausted == {g \in DOMAIN futures : futures[g].result = "none"}

PersistedStatus == db_batch[batch.id].batch_status

\* C1: every message delivered to callback is acknowledged exactly once and
\* only when its processing is over, whatever the outcome; no exception
\* leaves callback, and handling never blocks before the acknowledgement.
C1_AckedExactlyOnce ==
    /\ pc # "escaped"
    /\ acked = [k \in 1..Len(acked) |-> k]
    /\ Len(acked) = IF pc = "idle" THEN delivered ELSE delivered - 1
    /\ Processing => ENABLED Next

\* C1 witness: with two messages acknowledged, a third one whose
\* process_batch raised out of the persistence layer waits for its ack
C1_Witness ==
    /\ pc = "ack"
    /\ acked = <<1, 2>>
    /\ msg.ok
    /\ 238 \in errlog

\* C2, as stated: on the OPEN_AI path, when a group exhausted its attempts
\* the batch status is FAILED when processing ends and no upload message
\* was published.
C2_AllOrNothing ==
    (pc = "ack" /\ TypeOfBatch = "OPEN_AI" /\ Exhausted # {}) =>
        /\ PersistedStatus = "FAILED"
        /\ upload_queue = << >>

\* C2, amended: on the OPEN_AI path, when a group exhausted its attempts no
\* upload message is published, and the batch status is FAILED when
\* processing ends unless a FAILED status write raised (logged at line 215
\* and swallowed), in which case it keeps the value it had.
C2_AllOrNothingUnlessWriteFails ==
    (pc = "ack" /\ TypeOfBatch = "OPEN_AI" /\ Exhausted # {}) =>
        /\ upload_queue = << >>
        /\ PersistedStatus \in {"FAILED", batch.batch_status}
        /\ 215 \notin errlog => PersistedStatus = "FAILED"

\* C2 witness: processing ends FAILED with one group exhausted after the
\* pairs of another, successful group were already collected
C2_Witness ==
    /\ pc = "ack"
    /\ TypeOfBatch = "OPEN_AI"
    /\ Exhausted # {}
    /\ \E g \in DOMAIN futures : futures[g].result = "data"
    /\ text_embeddings_list # << >>
    /\ PersistedStatus = "FAILED"
    /\ upload_queue = << >>

\* C3: when lines 39-45 complete, a batch that was NOT_STARTED is PROCESSING
\* with retry_count unchanged, and a batch in any other status has
\* retry_count increased by exactly 1 and is PROCESSING again.
C3_BeginProcessingLaw ==
    [][(pc = "begin" /\ pc' = "dispatch") =>
          LET old == db_batch[batch.id]
              new == db_batch'[batch.id]
          IN  /\ new.batch_status = "PROCESSING"
              /\ new.retries = IF old.batch_status = "NOT_STARTED"
                               THEN old.retries ELSE old.retries + 1]_vars

\* C4: the worker writes PROCESSING_BATCHES only over NOT_STARTED or
\* CREATING_BATCHES, at most once over all the batches it processes and
\* before any batch of the job leaves NOT_STARTED, and once the job is
\* PROCESSING_BATCHES or later no step changes its status.
C4_JobTransitionOnce ==
    /\ [][/\ db_job' # db_job =>
                db_job \in {"NOT_STARTED", "CREATING_BATCHES"} /\ db_job' = "PROCESSING_BATCHES"
          /\ job_writes' # job_writes =>
                /\ job_writes' = job_writes + 1
                /\ db_job \in {"NOT_STARTED", "CREATING_BATCHES"}
                /\ db_job' = "PROCESSING_BATCHES"]_vars
    /\ [](job_writes <= 1)
    /\ [](job_writes = 1 => db_job = "PROCESSING_BATCHES")
    /\ []((\E b \in Batches : db_batch[b].batch_status # "NOT_STARTED") =>
             db_job \notin {"NOT_STARTED", "CREATING_BATCHES"})

\* C4 witness: the third batch of the job is processed after the single write
C4_Witness ==
    /\ pc = "dispatch"
    /\ job_writes = 1
    /\ db_job = "PROCESSING_BATCHES"
    /\ \A b \in Batches : db_batch[b].batch_status # "NOT_STARTED"

\* C5: on the HUGGING_FACE path, whenever a fan-out message of the batch
\* exists, minibatch_count already equals the number of groups the grouper
\* makes for HUGGING_FACE_BATCH_SIZE, and no more messages than that were
\* published.
C5_MinibatchCountFirst ==
    embed_queue # << >> =>
        /\ TypeOfBatch = "HUGGING_FACE"
        /\ \A k \in 1..Len(embed_queue) : embed_queue[k].batch_id = batch.id
        /\ db_batch[batch.id].minibatch_count
              = CeilDiv(Len(ChunkedData), HUGGING_FACE_BATCH_SIZE)
        /\ db_batch[batch.id].minibatch_count = Len(groups)
        /\ Len(embed_queue) <= db_batch[batch.id].minibatch_count

\* C5 witness: the first fan-out message is out and a group is still to be
\* published
C5_Witness ==
    /\ pc = "hf_publish"
    /\ Len(embed_queue) = 1
    /\ hf_idx <= Len(groups)
    /\ db_batch[batch.id].minibatch_count = 2

\* C6: once the publish of a group failed on all 5 attempts the batch is
\* FAILED and no later group of the batch is published: the published
\* groups are the groups before the exhausted one.
C6_StopAfterExhausted ==
    128 \in errlog =>
        /\ PersistedStatus = "FAILED"
        /\ \A k \in 1..Len(embed_queue) : embed_queue[k].chunks = groups[k]

\* C7: the upload publish is attempted once: when it fails nothing is
\* published for the batch, the batch status is the one line 45 read before
\* the dispatch, and no exception reaches process_batch or callback.
C7_UploadSingleAttempt ==
    /\ Len(upload_queue) <= 1
    /\ 225 \in errlog =>
          /\ pc = "ack"
          /\ upload_queue = << >>
          /\ PersistedStatus = batch.batch_status
          /\ PersistedStatus # "NOT_STARTED"
          /\ errlog = {225}

\* C7 witness: the upload publish of a fully embedded batch failed
C7_Witness ==
    /\ pc = "ack"
    /\ 225 \in errlog
    /\ Exhausted = {}
    /\ Len(text_embeddings_list) = 4

\* handling of a synchronous batch is over, the dispatcher ran and every
\* group of it got data from the provider
SyncAllSucceeded ==
    /\ pc = "ack"
    /\ TypeOfBatch = "OPEN_AI"
    /\ 238 \notin errlog
    /\ \A g \in DOMAIN futures : futures[g].result = "data"

\* the pairs are one (text, vector) pair per chunk occurrence, each text with
\* the vector the provider returned for it
PairsMatchChunks(pairs) ==
    /\ Len(pairs) = Len(ChunkedData)
    /\ \A k \in DOMAIN pairs : pairs[k] = <<pairs[k][1], Vector(pairs[k][1])>>
    /\ \A k \in DOMAIN ChunkedData :
          Cardinality({j \in DOMAIN pairs : pairs[j][1] = ChunkedData[k]})
             = Cardinality({j \in DOMAIN ChunkedData : ChunkedData[j] = ChunkedData[k]})

\* C15 (as stated): when every provider group of a synchronous batch succeeded,
\* exactly one upload message has been published, with one (text, vector) pair
\* per chunk occurrence and each text paired with the vector returned for it,
\* whatever the order in which the groups completed
C15_OneUploadAllPairs ==
    SyncAllSucceeded =>
        /\ Len(upload_queue) = 1
        /\ PairsMatchChunks(upload_queue[1].embeddings)

\* C15 (amended): as above when the batch has at least one chunk and the single
\* upload publish did not fail; with no chunk, or when the publish failed, no
\* upload message is published; the pairs collected are right in every case
C15_OneUploadAllPairsIfPublished ==
    SyncAllSucceeded =>
        /\ PairsMatchChunks(text_embeddings_list)
        /\ IF ChunkedData # << >> /\ 225 \notin errlog
           THEN /\ Len(upload_queue) = 1
                /\ upload_queue[1].batch_id = batch.id
                /\ upload_queue[1].embeddings = text_embeddings_list
           ELSE upload_queue = << >>

\* the groups completed against the order of submission and the upload was
\* published: the pairs of the second group come first
C15_Witness ==
    /\ SyncAllSucceeded
    /\ Len(upload_queue) = 1
    /\ Len(upload_queue[1].embeddings) = 4
    /\ upload_queue[1].embeddings[1][1] # ChunkedData[1]
    /\ \E j, k \in DOMAIN ChunkedData : j # k /\ ChunkedData[j] = ChunkedData[k]

\* the lines that log a failure of the handling of a message (a failed publish
\* attempt that is retried, line 122, is not one)
FailureLines == {54, 58, 64, 67, 103, 128, 215, 225, 238}

\* the lines that log a failure the dispatch branches of process_batch handle
DispatchFailureLines == {54, 58, 64, 67, 128}

\* C17 (as stated): when the handling of a dispatch message for a batch failed
\* at any stage, the persisted status of the batch is FAILED when the message
\* is about to be acknowledged
C17_EveryFailureMarksFailed ==
    (pc = "ack" /\ msg.batch_id \in Batches /\ errlog \cap FailureLines # {})
        => db_batch[msg.batch_id].batch_status = "FAILED"

\* C17 (amended): a failure of the dispatch (a provider group used up its
\* attempts, no embeddings, an exception in a dispatcher, an unsupported type,
\* a fan-out publish used up its attempts) leaves the batch FAILED at the
\* acknowledgement unless a FAILED write was itself swallowed; a failed upload
\* publish and an exception that reaches callback leave the record untouched
C17_FailedOnlyAfterDispatchFailure ==
    /\ []((pc = "ack" /\ errlog \cap DispatchFailureLines # {} /\ 215 \notin errlog)
            => PersistedStatus = "FAILED")
    /\ [][((errlog' \ errlog) \cap {225, 238} # {})
            => (pc' = "ack" /\ db_batch' = db_batch)]_vars

\* a record write failed after the batch was read: the message is about to be
\* acknowledged with the batch still NOT_STARTED
C17_Witness ==
    /\ pc = "ack"
    /\ 238 \in errlog
    /\ batch.id \in Batches
    /\ PersistedStatus = "NOT_STARTED"

\* handling of a synchronous batch whose text gave no chunk is over
SyncEmptyHandled ==
    /\ pc = "ack"
    /\ TypeOfBatch = "OPEN_AI"
    /\ 238 \notin errlog
    /\ ChunkedData = << >>

\* C19 (as stated): a synchronous batch with an empty source text makes no
\* provider call, publishes no upload message and ends FAILED; an upload
\* message is published only for a batch with at least one chunk
C19_EmptyBatchFails ==
    /\ SyncEmptyHandled =>
          /\ futures = << >>
          /\ upload_queue = << >>
          /\ PersistedStatus = "FAILED"
    /\ (TypeOfBatch = "OPEN_AI" /\ upload_queue # << >>) => ChunkedData # << >>

\* C19 (amended): as above, the batch ending FAILED unless the FAILED write
\* raised, which is logged (line 215) and swallowed
C19_EmptyBatchFailsUnlessWriteFails ==
    /\ SyncEmptyHandled =>
          /\ futures = << >>
          /\ upload_queue = << >>
          /\ 54 \in errlog
          /\ 215 \notin errlog => PersistedStatus = "FAILED"
          /\ 215 \in errlog => PersistedStatus = batch.batch_status
    /\ (TypeOfBatch = "OPEN_AI" /\ upload_queue # << >>) =>
          (ChunkedData # << >> /\ upload_queue[1].embeddings # << >>)

\* an empty synchronous batch was marked FAILED without any provider task
C19_Witness ==
    /\ SyncEmptyHandled
    /\ futures = << >>
    /\ errlog = {54}
    /\ batch.batch_status = "PROCESSING"
    /\ PersistedStatus = "FAILED"

\* C20: every upload message and every fan-out message published while a
\* dispatch message is handled carries the vector_db_key and the batch id of
\* that message, whatever keys the earlier messages carried, and a message
\* that cannot be decoded publishes nothing
C20_KeyOfCurrentMessage ==
    /\ \A k \in DOMAIN upload_queue :
          /\ upload_queue[k].vector_db_key = msg.vector_db_key
          /\ upload_queue[k].batch_id = msg.batch_id
    /\ \A k \in DOMAIN embed_queue :
          /\ embed_queue[k].vector_db_key = msg.vector_db_key
          /\ embed_queue[k].batch_id = msg.batch_id
    /\ (upload_queue # << >> \/ embed_queue # << >>) => (msg.ok /\ environ = msg.vector_db_key)
    /\ (Processing /\ pc # "parse" /\ msg.ok) => environ = msg.vector_db_key

\* fan-out messages were published for a message that arrived while the
\* environment still held the different key of an earlier message
C20_Witness ==
    /\ Len(embed_queue) >= 2
    /\ entry_environ \in Keys
    /\ entry_environ # msg.vector_db_key
    /\ embed_queue[1].vector_db_key = msg.vector_db_key


(* ---- specification of the chunking functions: inputs drawn in Init ---- *)
InitChunk ==
    /\ strategy \in {"EXACT", "PARAGRAPH"}
    /\ data \in Texts(MaxLen)
    /\ chunk_size \in 1..MaxSize
    /\ overlap \in IF strategy = "EXACT" THEN 0..(chunk_size - 1) ELSE 0..MaxOverlap
    /\ start_idx = 0
    /\ chunks = << >>
    /\ cpc = IF strategy = "EXACT" THEN "call" ELSE "loop"
    /\ RetryOff /\ GroupOff /\ ConnOff /\ TwoOff
    /\ WorkerInit
    /\ db_job = "NOT_STARTED"

\* chunk_data -> chunk_data_exact
ApplyExact ==
    /\ cpc = "call"
    /\ strategy = "EXACT"
    /\ chunks' = chunk_data_exact(data, chunk_size, overlap)
    /\ cpc' = "done"
    /\ UNCHANGED <<strategy, data, chunk_size, overlap, start_idx, workerVars, extraVars>>

\* one iteration of the while loop of chunk_data_by_paragraph
ParagraphStep ==
    /\ cpc = "loop"
    /\ start_idx < Len(data)
    /\ LET end_idx == ParagraphEnd(data, start_idx, chunk_size)
       IN  /\ chunks' = Append(chunks, Slice(data, start_idx, end_idx + overlap))
           /\ start_idx' = ParagraphAdvance(end_idx, overlap)
    /\ UNCHANGED <<strategy, data, chunk_size, overlap, cpc, workerVars, extraVars>>

\* the loop condition fails: return chunks
ParagraphReturn ==
    /\ cpc = "loop"
    /\ start_idx >= Len(data)
    /\ cpc' = "done"
    /\ UNCHANGED <<strategy, data, chunk_size, overlap, start_idx, chunks, workerVars, extraVars>>

NextChunk == ApplyExact \/ ParagraphStep \/ ParagraphReturn

SpecChunk == InitChunk /\ [][NextChunk]_vars

\* the chunking loop is sequential code: it keeps running until it returns
SpecChunkFair == SpecChunk /\ WF_vars(NextChunk)

(* ------------------------------------------------------------------ *)
(* Properties of the chunking functions                                *)
(* ------------------------------------------------------------------ *)
ExactDone == cpc = "done" /\ strategy = "EXACT"

ExactStep == chunk_size - overlap

\* chunks shorter than chunk_size
ShortChunks == {k \in 1..Len(chunks) : Len(chunks[k]) < chunk_size}

\* C8, as stated: every chunk emitted by chunk_data_exact except possibly
\* the last one has length exactly chunk_size.
C8_AllButLastFull ==
    ExactDone => \A k \in 1..(Len(chunks) - 1) : Len(chunks[k]) = chunk_size

\* C8, amended: a chunk has length exactly chunk_size whenever its window
\* [k*step, k*step + chunk_size) fits in the text; the shorter chunks are the
\* trailing ones, at most ceil(chunk_size / step) of them, and only the last
\* one when the overlap is 0.
C8_ExactLengthLaw ==
    ExactDone =>
        /\ \A k \in 1..Len(chunks) :
              Len(chunks[k]) = Min(chunk_size, Len(data) - (k - 1) * ExactStep)
        /\ \A k \in 1..Len(chunks) :
              (k - 1) * ExactStep + chunk_size <= Len(data) => Len(chunks[k]) = chunk_size
        /\ \A k \in ShortChunks : \A j \in k..Len(chunks) : j \in ShortChunks
        /\ Cardinality(ShortChunks) <= CeilDiv(chunk_size, ExactStep)
        /\ overlap = 0 => ShortChunks \subseteq {Len(chunks)}

\* C8 witness: an EXACT call with overlap that returned full chunks followed
\* by more than one short chunk
C8_Witness ==
    /\ ExactDone
    /\ overlap > 0
    /\ Cardinality(ShortChunks) >= 2
    /\ Len(chunks) > Cardinality(ShortChunks)

\* the chunks joined again after dropping, from every chunk but the first,
\* the chunk_overlap characters it shares with its predecessor
TrimJoin(cs, ovl) ==
    IF cs = << >> THEN << >>
    ELSE Head(cs) \o Concat([k \in 1..(Len(cs) - 1) |-> Slice(cs[k + 1], ovl, Len(cs[k + 1]))])

\* C9: chunk_data_exact emits exactly ceil(L / (S-O)) chunks, chunk i is the
\* window of the text starting at i*(S-O) of length at most S clamped to the
\* text end, and joining the chunks with the overlap trimmed gives the text
\* back (ABCDEFGHIJ, S=4, O=1 gives ABCD, DEFG, GHIJ, J).
C9_ExactCountCoverage ==
    /\ chunk_data_exact(<<"A", "B", "C", "D", "E", "F", "G", "H", "I", "J">>, 4, 1)
          = << <<"A", "B", "C", "D">>, <<"D", "E", "F", "G">>,
               <<"G", "H", "I", "J">>, <<"J">> >>
    /\ ExactDone =>
        /\ Len(chunks) = CeilDiv(Len(data), ExactStep)
        /\ \A k \in 1..Len(chunks) :
              chunks[k] = [j \in 1..Min(chunk_size, Len(data) - (k - 1) * ExactStep)
                              |-> data[(k - 1) * ExactStep + j]]
        /\ TrimJoin(chunks, overlap) = data

\* C9 witness: an EXACT call with overlap, three or more chunks and a text
\* whose length is no multiple of the step
C9_Witness ==
    /\ ExactDone
    /\ overlap > 0
    /\ Len(chunks) >= 3
    /\ Len(data) % ExactStep # 0

\* C10: on every iteration of chunk_data_by_paragraph the cursor strictly
\* increases, by at most chunk_size and never past the text end (it advances
\* to the computed end, not to end + overlap); the loop runs at most
\* len(text) times and the call returns.
C10_ParagraphTerminates ==
    /\ [][(strategy = "PARAGRAPH" /\ chunks' # chunks) =>
             /\ start_idx' > start_idx
             /\ start_idx' <= Min(start_idx + chunk_size, Len(data))]_vars
    /\ [](strategy = "PARAGRAPH" => Len(chunks) <= Len(data))
    /\ <>(cpc = "done")

\* C10 witness: a PARAGRAPH call with overlap on a text with no paragraph
\* break that returned after several iterations
C10_Witness ==
    /\ cpc = "done"
    /\ strategy = "PARAGRAPH"
    /\ overlap >= 1
    /\ FindBreak(data, 0, Len(data)) = -1
    /\ Len(chunks) >= 2
    /\ start_idx = Len(data)

(* ------------------------------------------------------------------ *)
(* Specification of chunk_by_sentence: inputs drawn in Init            *)
(* ------------------------------------------------------------------ *)
\* texts of length at most n over SentenceAlphabet
SentenceTexts(n) == UNION {[1..k -> SentenceAlphabet] : k \in 0..n}

InitSentence ==
    /\ strategy = "SENTENCE"
    /\ data \in SentenceTexts(MaxSentenceLen)
    /\ chunk_size \in 1..MaxSentenceSize
    /\ overlap \in 0..(chunk_size - 1)
    /\ start_idx = 0
    /\ chunks = << >>
    /\ cpc = "call"
    /\ RetryOff /\ GroupOff /\ ConnOff /\ TwoOff
    /\ WorkerInit
    /\ db_job = "NOT_STARTED"

\* chunk_data -> chunk_by_sentence
ApplySentence ==
    /\ cpc = "call"
    /\ strategy = "SENTENCE"
    /\ chunks' = chunk_by_sentence(data, chunk_size, overlap)
    /\ cpc' = "done"
    /\ UNCHANGED <<strategy, data, chunk_size, overlap, start_idx, workerVars, extraVars>>

NextSentence == ApplySentence

SpecSentence == InitSentence /\ [][NextSentence]_vars

\* the indices p at which a separator starts: a space right after a sentence ending
SeparatorStarts == {p \in 1..(Len(data) - 1) : data[p] \in SentenceEndings /\ data[p + 1] = " "}

\* the index at which the sentence that follows the separator at p starts:
\* the first index after p that holds no space, or the end of the text
SentenceStartAfter(p) ==
    CHOOSE q \in p..Len(data) :
        /\ \A r \in (p + 1)..q : data[r] = " "
        /\ q = Len(data) \/ data[q + 1] # " "

\* the separator starts in increasing order
SeparatorSeq ==
    CHOOSE f \in [1..Cardinality(SeparatorStarts) -> SeparatorStarts] :
        \A j, k \in DOMAIN f : j < k => f[j] < f[k]

\* the sentences of the text: what lies between consecutive separators
SentencesOfData ==
    [k \in 1..(Cardinality(SeparatorStarts) + 1) |->
        Slice(data,
              IF k = 1 THEN 0 ELSE SentenceStartAfter(SeparatorSeq[k - 1]),
              IF k = Cardinality(SeparatorStarts) + 1 THEN Len(data) ELSE SeparatorSeq[k])]

\* C11: when chunk_by_sentence has returned (0 <= O < S), the chunks are, in
\* order, each sentence of length <= S as it is and, for each sentence longer
\* than S, the chunks chunk_data_exact produces for it with the same S and O;
\* no chunk is longer than S
C11_SentenceBound ==
    (cpc = "done" /\ strategy = "SENTENCE") =>
        /\ chunks = Concat([k \in DOMAIN SentencesOfData |->
                              IF Len(SentencesOfData[k]) <= chunk_size
                              THEN <<SentencesOfData[k]>>
                              ELSE chunk_data_exact(SentencesOfData[k], chunk_size, overlap)])
        /\ \A k \in DOMAIN chunks : Len(chunks[k]) <= chunk_size

\* a text with a sentence that fits and a sentence that is cut has been chunked
C11_Witness ==
    /\ cpc = "done" /\ strategy = "SENTENCE"
    /\ overlap >= 1
    /\ \E j, k \in DOMAIN SentencesOfData :
          /\ Len(SentencesOfData[j]) > chunk_size
          /\ Len(SentencesOfData[k]) \in 1..chunk_size
    /\ Len(chunks) > Len(SentencesOfData)

(* ------------------------------------------------------------------ *)
(* Specification of get_openai_embedding called on one group           *)
(* ------------------------------------------------------------------ *)
InitRetry ==
    /\ ChunkOff /\ GroupOff /\ ConnOff /\ TwoOff
    /\ WorkerInit
    /\ db_job = "NOT_STARTED"
    /\ retry_pc = "try"
    /\ retry_i = 0
    /\ calls = 0
    /\ sleeps = << >>
    /\ returned = "unset"

\* the end of one pass of the for loop: the next pass, or line 83 after the last
EndOfPass ==
    /\ retry_i' = retry_i + 1
    /\ IF retry_i + 1 = Attempts
       THEN retry_pc' = "returned" /\ returned' = "none"
       ELSE retry_pc' = "try" /\ UNCHANGED returned

\* openai.Embedding.create is called (line 74) and returns data, returns no
\* data or raises; an exception is logged and the thread enters time.sleep
RetryCall(outcome) ==
    /\ retry_pc = "try"
    /\ retry_i < Attempts
    /\ calls' = calls + 1
    /\ IF TryOnce(retry_i, outcome).returns
       THEN /\ retry_pc' = "returned"
            /\ returned' = "data"
            /\ UNCHANGED <<retry_i, sleeps>>
       ELSE IF TryOnce(retry_i, outcome).sleep > 0
       THEN /\ retry_pc' = "sleep"
            /\ sleeps' = Append(sleeps, TryOnce(retry_i, outcome).sleep)
            /\ UNCHANGED <<retry_i, returned>>
       ELSE /\ EndOfPass
            /\ UNCHANGED sleeps
    /\ UNCHANGED <<chunkVars, workerVars, groupVars, connVars, twoVars>>

\* time.sleep returns (line 82)
RetryWake ==
    /\ retry_pc = "sleep"
    /\ EndOfPass
    /\ UNCHANGED <<calls, sleeps>>
    /\ UNCHANGED <<chunkVars, workerVars, groupVars, connVars, twoVars>>

NextRetry ==
    \/ \E outcome \in {"data", "empty", "raise"} : RetryCall(outcome)
    \/ RetryWake

SpecRetry == InitRetry /\ [][NextRetry]_vars

\* the delays 1, 2, 4, ... of the first n failed attempts
Backoff(n) == [j \in 1..n |-> 2 ^ (j - 1)]

\* C12: the provider is called at most 5 times and never after a success;
\* every failed attempt i, raised or without data, has been followed by a sleep
\* of 2^i seconds when the next attempt starts; the group is reported failed
\* only after 5 failed attempts
C12_RetryPolicy ==
    /\ calls <= Attempts
    /\ (retry_pc = "returned" /\ returned = "data") => calls = retry_i + 1
    /\ (retry_pc = "try" /\ retry_i < Attempts) =>
            (calls = retry_i /\ sleeps = Backoff(retry_i))
    /\ returned = "none" => (calls = Attempts /\ retry_i = Attempts)

(* ------------------------------------------------------------------ *)
(* Specification of start_connection                                   *)
(* ------------------------------------------------------------------ *)
\* what the statements of the try block raise
ConnErrors == {"AMQPConnectionError", "ChannelClosed", "OSError"}

InitConn ==
    /\ ChunkOff /\ RetryOff /\ GroupOff /\ TwoOff
    /\ WorkerInit
    /\ db_job = "NOT_STARTED"
    /\ conn_pc = "connect"
    /\ connection = 0
    /\ publish_channel = 0
    /\ conn_failures = 0
    /\ consumed = 0

\* mutant: only a failure to connect is caught
ConnCatchesConnectOnly(e) == e = "AMQPConnectionError"

\* except Exception as e (line 278)
ConnCatches(e) == TRUE

\* a statement of the try block raises e: the handler logs and sleeps
\* (lines 278-280), or the exception leaves start_connection
ConnRaise(e) ==
    /\ conn_failures < MaxConnFailures
    /\ IF ConnCatches(e)
       THEN /\ conn_pc' = "sleep"
            /\ conn_failures' = conn_failures + 1
            /\ sleeps' = Append(sleeps, PIKA_RETRY_INTERVAL)
       ELSE /\ conn_pc' = "exited"
            /\ UNCHANGED <<conn_failures, sleeps>>

\* pika.BlockingConnection(connection_params) (lines 245-263)
Connect(ok, e) ==
    /\ conn_pc = "connect"
    /\ IF ok
       THEN /\ connection' = conn_failures + 1
            /\ conn_pc' = "declare"
            /\ UNCHANGED <<conn_failures, sleeps>>
       ELSE /\ ConnRaise(e)
            /\ UNCHANGED connection
    /\ UNCHANGED <<publish_channel, consumed, retry_pc, retry_i, calls, returned>>
    /\ UNCHANGED <<chunkVars, workerVars, groupVars, twoVars>>

\* the channels, the queue declarations and basic_consume (lines 264-273)
Declare(ok, e) ==
    /\ conn_pc = "declare"
    /\ IF ok
       THEN /\ publish_channel' = connection
            /\ conn_pc' = "consume"
            /\ UNCHANGED <<conn_failures, sleeps>>
       ELSE /\ ConnRaise(e)
            /\ UNCHANGED publish_channel
    /\ UNCHANGED <<connection, consumed, retry_pc, retry_i, calls, returned>>
    /\ UNCHANGED <<chunkVars, workerVars, groupVars, twoVars>>

\* start_consuming hands one message to callback, which returns (line 276)
Consume ==
    /\ conn_pc = "consume"
    /\ consumed < MaxConsumed
    /\ consumed' = consumed + 1
    /\ UNCHANGED <<conn_pc, connection, publish_channel, conn_failures, retryVars>>
    /\ UNCHANGED <<chunkVars, workerVars, groupVars, twoVars>>

\* start_consuming raises: the connection or the channel was lost (line 276)
ConsumeRaises(e) ==
    /\ conn_pc = "consume"
    /\ ConnRaise(e)
    /\ UNCHANGED <<connection, publish_channel, consumed, retry_pc, retry_i, calls, returned>>
    /\ UNCHANGED <<chunkVars, workerVars, groupVars, twoVars>>

\* time.sleep(config.PIKA_RETRY_INTERVAL) returns and the while loop goes round
ConnWake ==
    /\ conn_pc = "sleep"
    /\ conn_pc' = "connect"
    /\ UNCHANGED <<connection, publish_channel, conn_failures, consumed, retryVars>>
    /\ UNCHANGED <<chunkVars, workerVars, groupVars, twoVars>>

NextConn ==
    \/ \E ok \in BOOLEAN, e \in ConnErrors : Connect(ok, e)
    \/ \E ok \in BOOLEAN, e \in ConnErrors : Declare(ok, e)
    \/ Consume
    \/ \E e \in ConnErrors : ConsumeRaises(e)
    \/ ConnWake

SpecConn == InitConn /\ [][NextConn]_vars

\* the thread of start_connection keeps running: a sleep returns, a blocking
\* call returns or raises
SpecConnFair == SpecConn /\ WF_vars(NextConn)

\* C13: start_connection never exits; every failure while connecting,
\* declaring or consuming is followed by one sleep of the same fixed interval,
\* and after every failure a new connection attempt eventually follows
C13_AlwaysReconnects ==
    /\ [](conn_pc # "exited")
    /\ [](Len(sleeps) = conn_failures
           /\ \A k \in DOMAIN sleeps : sleeps[k] = PIKA_RETRY_INTERVAL)
    /\ \A n \in 1..MaxConnFailures :
          (conn_pc = "sleep" /\ conn_failures = n)
              ~> (conn_pc = "connect" /\ conn_failures = n)

\* the loop is connecting again after failures of which one came after a
\* connection had been made
C13_Witness ==
    /\ conn_pc = "connect"
    /\ conn_failures >= 2
    /\ connection \in 1..(conn_failures - 1)
    /\ Len(sleeps) = conn_failures

(* ------------------------------------------------------------------ *)
(* Specification of create_upload_batches: inputs drawn in Init        *)
(* ------------------------------------------------------------------ *)
\* the chunks of the lists that are grouped
ChunkItems == {<<"a">>, <<"b">>}

InitGroup ==
    /\ ChunkOff /\ RetryOff /\ ConnOff /\ TwoOff
    /\ WorkerInit
    /\ db_job = "NOT_STARTED"
    /\ group_pc = "call"
    /\ chunked_data \in UNION {[1..n -> ChunkItems] : n \in 0..MaxChunks}
    /\ upload_batch_size \in 1..MaxGroupSize
    /\ open_ai_batches = << >>

\* open_ai_batches = create_upload_batches(chunked_data, max_batch_size=...)
ApplyGroup ==
    /\ group_pc = "call"
    /\ open_ai_batches' = create_upload_batches(chunked_data, upload_batch_size)
    /\ group_pc' = "done"
    /\ UNCHANGED <<chunked_data, upload_batch_size>>
    /\ UNCHANGED <<chunkVars, workerVars, retryVars, connVars, twoVars>>

NextGroup == ApplyGroup

SpecGroup == InitGroup /\ [][NextGroup]_vars

\* C14: for a list of n chunks and m >= 1, create_upload_batches returns
\* ceil(n/m) non-empty groups, every group but the last has exactly m items,
\* the last has at most m, and the groups concatenated in order are the list
C14_OrderPreservingPartition ==
    group_pc = "done" =>
        /\ Len(open_ai_batches) = CeilDiv(Len(chunked_data), upload_batch_size)
        /\ \A k \in DOMAIN open_ai_batches :
              /\ Len(open_ai_batches[k]) >= 1
              /\ Len(open_ai_batches[k]) <= upload_batch_size
              /\ k < Len(open_ai_batches) => Len(open_ai_batches[k]) = upload_batch_size
        /\ Concat(open_ai_batches) = chunked_data

\* a list that does not divide evenly has been grouped into a short last group
C14_Witness ==
    /\ group_pc = "done"
    /\ upload_batch_size >= 2
    /\ Len(open_ai_batches) >= 2
    /\ Len(open_ai_batches[Len(open_ai_batches)]) < upload_batch_size
    /\ \E j, k \in DOMAIN chunked_data : chunked_data[j] # chunked_data[k]

(* ------------------------------------------------------------------ *)
(* Specification of two worker instances handling one batch            *)
(* ------------------------------------------------------------------ *)
\* the batch both workers receive dispatch messages for
SharedBatch == CHOOSE b \in Batches : \A c \in Batches : b <= c

InitTwo ==
    /\ ChunkOff /\ RetryOff /\ GroupOff /\ ConnOff
    /\ WorkerInit
    /\ db_job = "NOT_STARTED"
    /\ w_pc = [w \in Workers |-> "idle"]
    /\ w_batch = [w \in Workers |-> NoBatch]
    /\ begins = 0

\* messages whose handling has started
Started == begins + Cardinality({w \in Workers : w_pc[w] = "begin"})

\* worker w receives a dispatch message for the batch and reads the record
\* (line 32)
TwoGetBatch(w) ==
    /\ w_pc[w] = "idle"
    /\ Started < MaxBegins
    /\ w_batch' = [w_batch EXCEPT ![w] =
                      [id |-> SharedBatch,
                       batch_status |-> db_batch[SharedBatch].batch_status,
                       retries |-> db_batch[SharedBatch].retries,
                       minibatch_count |-> db_batch[SharedBatch].minibatch_count]]
    /\ w_pc' = [w_pc EXCEPT ![w] = "begin"]
    /\ UNCHANGED <<begins, db_batch>>
    /\ UNCHANGED <<chunkVars, brokerVars, db_job, job_writes, localVars, outVars,
                   retryVars, groupVars, connVars>>

\* worker w writes the status or the retry count from the record it read
\* (lines 39-42)
TwoBegin(w) ==
    /\ w_pc[w] = "begin"
    /\ db_batch' = [db_batch EXCEPT ![SharedBatch] = BeginProcessing(@, w_batch[w])]
    /\ begins' = begins + 1
    /\ w_pc' = [w_pc EXCEPT ![w] = "dispatch"]
    /\ UNCHANGED w_batch
    /\ UNCHANGED <<chunkVars, brokerVars, db_job, job_writes, localVars, outVars,
                   retryVars, groupVars, connVars>>

\* worker w finishes the message: the batch is left as it is or marked FAILED
\* (lines 47-68), and the message is acknowledged
TwoFinish(w, failed) ==
    /\ w_pc[w] = "dispatch"
    /\ db_batch' = IF failed
                   THEN [db_batch EXCEPT ![SharedBatch] = update_batch_status(@, "FAILED")]
                   ELSE db_batch
    /\ w_pc' = [w_pc EXCEPT ![w] = "idle"]
    /\ UNCHANGED <<w_batch, begins>>
    /\ UNCHANGED <<chunkVars, brokerVars, db_job, job_writes, localVars, outVars,
                   retryVars, groupVars, connVars>>

NextTwo ==
    \/ \E w \in Workers : TwoGetBatch(w)
    \/ \E w \in Workers : TwoBegin(w)
    \/ \E w \in Workers, failed \in BOOLEAN : TwoFinish(w, failed)

SpecTwo == InitTwo /\ [][NextTwo]_vars

\* C16: after k begin-processing steps by the two workers on a batch that
\* started NOT_STARTED with retry_count 0, the persisted retry_count is k - 1
C16_NoLostIncrement ==
    begins >= 1 => db_batch[SharedBatch].retries = begins - 1

(* ------------------------------------------------------------------ *)
(* Specification of the worker on synchronous batches with more groups *)
(* than pool threads                                                   *)
(* ------------------------------------------------------------------ *)
\* a source text of five chunks: more groups than the pool has threads
PoolText == << <<"a", "a">>, <<"a", "b", "b">> >>

\* dispatch messages for the synchronous batch
PoolMessages ==
    [ok : {TRUE}, batch_id : {b \in Batches : EmbeddingsMetadataOf(b).embeddings_type = "OPEN_AI"},
     source_data : {PoolText}, vector_db_key : Keys]

InitPool ==
    /\ ChunkOff
    /\ RetryOff /\ GroupOff /\ ConnOff /\ TwoOff
    /\ WorkerInit
    /\ db_job = "NOT_STARTED"

NextPool ==
    \/ \E m \in PoolMessages : Deliver(m)
    \/ Parse
    \/ \E ok \in BOOLEAN : GetBatch(ok)
    \/ \E ok \in BOOLEAN : JobStatusStep(ok)
    \/ \E ok \in BOOLEAN : Begin(ok)
    \/ Dispatch
    \/ \E g \in DOMAIN futures : TaskStart(g)
    \/ \E g \in DOMAIN futures, outcome \in {"data", "empty", "raise"} : ProviderCall(g, outcome)
    \/ \E g \in DOMAIN futures, resolves \in BOOLEAN, ok \in BOOLEAN : Collect(g, resolves, ok)
    \/ PoolReturn
    \/ PoolJoin
    \/ \E ok \in BOOLEAN : MarkFailed(ok)
    \/ \E ok \in BOOLEAN : Upload(ok)
    \/ Ack

SpecPool == InitPool /\ [][NextPool]_vars

\* C18: at most one message is being handled at any time and messages are
\* acknowledged in delivery order; at most MAX_THREADS_OPENAI provider calls
\* are in flight at once; outside the with block of embed_openai_batch, and so
\* when the message is acknowledged, no task of the batch is queued or running,
\* after a success and after a failure
C18_SynchronousEndToEnd ==
    /\ acked = [k \in 1..Len(acked) |-> k]
    /\ Len(acked) = IF pc = "idle" THEN delivered ELSE delivered - 1
    /\ Cardinality(Running) <= MAX_THREADS_OPENAI
    /\ ~InPool => AllDone

\* every pool thread is busy with a provider call and a task waits for a thread
C18_Witness ==
    /\ pc = "pool"
    /\ Cardinality(Running) = MAX_THREADS_OPENAI
    /\ Queued # {}
    /\ Len(acked) >= 1
====
